---- MODULE Spec2Model ----
(***************************************************************************)
(* A model of ngb_binder.py: binding folders of scanned page images into   *)
(* one PDF per issue.  File and folder names are strings, read character   *)
(* by character; file contents are short byte sequences; the output        *)
(* directory is a pair of maps (final documents, checkpoints) keyed by the *)
(* issue key; every worker of the pool runs process_folder one filesystem  *)
(* operation at a time.                                                    *)
(***************************************************************************)
EXTENDS Integers, Sequences, FiniteSets, TLC

VARIABLES
    pc,        \* worker -> the place in process_folder / build_pdf it is at
    arg,       \* worker -> [folder, ocr, key]: its call's arguments and yyyymm
    images,    \* worker -> the list get_image_files returned (file names)
    objs,      \* worker -> image_objs of build_pdf (decoded pages)
    failed,    \* worker -> failed_ocr of build_pdf
    rv,        \* worker -> the list build_pdf returned
    report,    \* the status print_status printed in the last step ("none": no line)
    final,     \* issue key -> the document at NGM_<key>.pdf (files present)
    chk,       \* issue key -> the file at NGM_<key>.pdf.chk (files present)
    scratch,   \* worker -> the ocr_<uuid> directory of its call
    dirs,      \* folder -> its directory entries
    wrote,     \* worker -> its call has changed the filesystem (history)
    saw,       \* worker -> what its call found at the final path (history)
    prior,     \* worker -> its call, in a later run, repeats a converted one (history)
    fresh,     \* the last call that converted, while nothing disturbed its result
    committed, \* worker -> the document its call renamed onto the final path
    chkAtRet,  \* worker -> a checkpoint file was there when build_pdf returned
    remove,    \* the --remove option of the program: delete_cng of every call
    calls,     \* the number of calls of process_folder so far
    gdir,      \* get_image_files alone: the folder given
    gopt,      \* get_image_files alone: [del, fail]
    gout,      \* get_image_files alone: [done, pages, dir]
    tree,      \* get_target_folder: path under rootdir -> "dir" or "file"
    tin,       \* get_target_folder: [yyyymm, choice], the argument and the input
    tout,      \* get_target_folder: [done, shown, result]
    pending,   \* run_batch: the folders submitted and not yet taken by a worker
    batch,     \* run_batch: [pool, ocr, stuck]: max_workers, --ocr, the slow folder
    ended    \* run_batch: folder -> "none", "printed" or "raised" (history)

vars == <<pc, arg, images, objs, failed, rv, report, final, chk, scratch, dirs,
          wrote, saw, prior, fresh, committed, chkAtRet, remove, calls, gdir, gopt, gout,
          tree, tin, tout, pending, batch, ended>>

(***************************************************************************)
(* Strings                                                                 *)
(***************************************************************************)
Ch(s, i) == SubSeq(s, i, i)

Rest(s) == SubSeq(s, 2, Len(s))

Digits == {"0", "1", "2", "3", "4", "5", "6", "7", "8", "9"}

\* The code point of a character (ASCII), for the characters the model uses.
Ord(c) ==
    CASE c = "." -> 46 [] c = "/" -> 47
      [] c = "0" -> 48 [] c = "1" -> 49 [] c = "2" -> 50 [] c = "3" -> 51
      [] c = "4" -> 52 [] c = "5" -> 53 [] c = "6" -> 54 [] c = "7" -> 55
      [] c = "8" -> 56 [] c = "9" -> 57
      [] c = "A" -> 65 [] c = "B" -> 66 [] c = "C" -> 67 [] c = "G" -> 71
      [] c = "J" -> 74 [] c = "M" -> 77 [] c = "N" -> 78 [] c = "P" -> 80
      [] c = "_" -> 95
      [] c = "a" -> 97 [] c = "b" -> 98 [] c = "c" -> 99 [] c = "d" -> 100
      [] c = "f" -> 102 [] c = "g" -> 103 [] c = "j" -> 106 [] c = "m" -> 109 [] c = "n" -> 110
      [] c = "p" -> 112 [] c = "s" -> 115 [] c = "t" -> 116 [] c = "u" -> 117
      [] c = "x" -> 120 [] c = "y" -> 121

\* str.lower() on one character.
LowerCh(c) ==
    CASE c = "A" -> "a" [] c = "B" -> "b" [] c = "C" -> "c" [] c = "G" -> "g"
      [] c = "J" -> "j" [] c = "M" -> "m" [] c = "N" -> "n" [] c = "P" -> "p"
      [] OTHER -> c

RECURSIVE Lower(_)
Lower(s) == IF s = "" THEN "" ELSE LowerCh(Ch(s, 1)) \o Lower(Rest(s))

StartsWith(s, p) == Len(s) >= Len(p) /\ SubSeq(s, 1, Len(p)) = p

\* str.rfind(c), 1-based; 0 when c does not occur.
RFind(s, c) ==
    LET at == {i \in 1..Len(s) : Ch(s, i) = c}
    IN  IF at = {} THEN 0 ELSE CHOOSE i \in at : \A j \in at : j <= i

\* Python's order on str: by code point, a proper prefix first.
RECURSIVE StrLess(_, _)
StrLess(a, b) ==
    IF b = "" THEN FALSE
    ELSE IF a = "" THEN TRUE
    ELSE IF Ch(a, 1) # Ch(b, 1) THEN Ord(Ch(a, 1)) < Ord(Ch(b, 1))
    ELSE StrLess(Rest(a), Rest(b))

\* sorted() on a list of paths of one directory.
RECURSIVE Insert(_, _)
Insert(x, s) ==
    IF s = <<>> THEN <<x>>
    ELSE IF StrLess(x, Head(s)) THEN <<x>> \o s
    ELSE <<Head(s)>> \o Insert(x, Tail(s))

RECURSIVE Sorted(_)
Sorted(s) == IF s = <<>> THEN <<>> ELSE Insert(s[Len(s)], Sorted(SubSeq(s, 1, Len(s) - 1)))

\* A set of names as a sorted list.
RECURSIVE SortedSet(_)
SortedSet(S) ==
    IF S = {} THEN <<>>
    ELSE LET m == CHOOSE x \in S : \A y \in S : ~StrLess(y, x)
         IN  <<m>> \o SortedSet(S \ {m})

\* os.path.basename
Basename(path) == SubSeq(path, RFind(path, "/") + 1, Len(path))

\* PurePath.suffix and PurePath.stem of a file name
SuffixAt(name) ==
    LET i == RFind(name, ".")
    IN  IF 1 < i /\ i < Len(name) THEN i ELSE Len(name) + 1

Suffix(name) == SubSeq(name, SuffixAt(name), Len(name))

Stem(name) == SubSeq(name, 1, SuffixAt(name) - 1)

\* PurePath.with_suffix
WithSuffix(name, suffix) == Stem(name) \o suffix

(***************************************************************************)
(* extract_yyyymm                                                          *)
(***************************************************************************)
KeyLen == 6

NoKey == ""

AllDigits(s) == \A i \in 1..Len(s) : Ch(s, i) \in Digits

\* The mutant: the six digits must not be followed by a seventh.
extract_yyyymm_bounded(foldername) ==
    LET b == Basename(foldername)
        at == {i \in 1..(Len(b) - KeyLen + 1) :
                  /\ AllDigits(SubSeq(b, i, i + KeyLen - 1))
                  /\ (i + KeyLen > Len(b) \/ Ch(b, i + KeyLen) \notin Digits)}
    IN  IF at = {} THEN NoKey
        ELSE LET i == CHOOSE i \in at : \A j \in at : i <= j
             IN  SubSeq(b, i, i + KeyLen - 1)

\* re.search(r'(\d{6})', basename): the leftmost place where six digits stand.
extract_yyyymm(foldername) ==
    LET b == Basename(foldername)
        at == {i \in 1..(Len(b) - KeyLen + 1) : AllDigits(SubSeq(b, i, i + KeyLen - 1))}
    IN  IF at = {} THEN NoKey
        ELSE LET i == CHOOSE i \in at : \A j \in at : i <= j
             IN  SubSeq(b, i, i + KeyLen - 1)

(***************************************************************************)
(* File contents and directories                                           *)
(***************************************************************************)
XorKey == 239

\* b ^ k on bytes
RECURSIVE Xor(_, _)
Xor(a, b) ==
    IF a = 0 /\ b = 0 THEN 0
    ELSE (((a % 2) + (b % 2)) % 2) + 2 * Xor(a \div 2, b \div 2)

\* A JPEG stream starts with the marker FF D8; the third byte tells pictures apart.
Jpeg(n) == <<255, 216, n>>

Garbage == <<71, 71>>

\* What Image.open / tesseract accept: a stream that starts with the JPEG marker.
Decodable(bytes) == Len(bytes) >= 2 /\ bytes[1] = 255 /\ bytes[2] = 216

\* bytearray((b ^ 239) for b in fin.read())
XorBytes(bytes) == [i \in 1..Len(bytes) |-> Xor(bytes[i], XorKey)]

\* A directory: the names present -> [kind, bytes].
File(bytes) == [kind |-> "file", bytes |-> bytes]

SubDir == [kind |-> "dir", bytes |-> <<>>]

NoDir == <<>>

Present(d, name) == name \in DOMAIN d

IsFile(d, name) == Present(d, name) /\ d[name].kind = "file"

Put(d, name, f) == (name :> f) @@ d

Remove(d, name) == [n \in (DOMAIN d) \ {name} |-> d[n]]

(***************************************************************************)
(* convert_cng_to_jpg, add_file, get_image_files                           *)
(***************************************************************************)
\* How one call of convert_cng_to_jpg ends: it works, the source cannot be
\* opened, the write stops after the target was opened (truncated), or the
\* os.remove of the source raises.
ConvertModes == {"ok", "open", "write", "remove"}

NoPath == ""

\* The mutant: the source is removed as soon as the target was opened.
convert_cng_to_jpg_hasty(d, src, delete, mode) ==
    LET jpg_path == WithSuffix(src, ".jpg")
        gone(dir) == IF delete THEN Remove(dir, src) ELSE dir
    IN  IF mode = "open" \/ ~IsFile(d, src) THEN [dir |-> d, path |-> NoPath]
        ELSE IF Present(d, jpg_path) /\ ~IsFile(d, jpg_path)
            THEN [dir |-> d, path |-> NoPath]
        ELSE IF mode = "write"
            THEN [dir |-> gone(Put(d, jpg_path, File(<<>>))), path |-> NoPath]
        ELSE [dir |-> gone(Put(d, jpg_path, File(XorBytes(d[src].bytes)))),
              path |-> IF delete /\ mode = "remove" THEN NoPath ELSE jpg_path]

convert_cng_to_jpg(d, src, delete, mode) ==
    LET jpg_path == WithSuffix(src, ".jpg")
    IN  IF mode = "open" \/ ~IsFile(d, src) THEN [dir |-> d, path |-> NoPath]
        ELSE IF Present(d, jpg_path) /\ ~IsFile(d, jpg_path)
            THEN [dir |-> d, path |-> NoPath]
        ELSE IF mode = "write"
            THEN [dir |-> Put(d, jpg_path, File(<<>>)), path |-> NoPath]
        ELSE LET written == Put(d, jpg_path, File(XorBytes(d[src].bytes)))
             IN  IF ~delete THEN [dir |-> written, path |-> jpg_path]
                 ELSE IF mode = "remove" THEN [dir |-> written, path |-> NoPath]
                 ELSE [dir |-> Remove(written, src), path |-> jpg_path]

\* The mutant: the stem is not recorded as seen.
add_file_unseen(st, p, is_main) ==
    [st EXCEPT !.main_pages = IF is_main THEN Append(@, p) ELSE @,
               !.extras = IF is_main THEN @ ELSE Append(@, p)]

add_file(st, p, is_main) ==
    [st EXCEPT !.main_pages = IF is_main THEN Append(@, p) ELSE @,
               !.extras = IF is_main THEN @ ELSE Append(@, p),
               !.seen = @ \cup {Lower(Stem(p))}]

IsMainName(name) == StartsWith(Lower(name), "ngm_")

ModeOf(fail, name) == IF name \in DOMAIN fail THEN fail[name] ELSE "ok"

\* One turn of the loop over the entries (lines 58-70).
GifVisit(st, entry, delete_cng, fail) ==
    LET ext == Lower(Suffix(entry))
        stem == Lower(Stem(entry))
    IN  IF ~IsFile(st.dir, entry) THEN st
        ELSE IF stem \in st.seen THEN st
        ELSE IF ext = ".jpg" THEN add_file(st, entry, IsMainName(entry))
        ELSE IF ext = ".cng"
            THEN LET c == convert_cng_to_jpg(st.dir, entry, delete_cng, ModeOf(fail, entry))
                     st2 == [st EXCEPT !.dir = c.dir]
                 IN  IF c.path # NoPath /\ Lower(Stem(c.path)) \notin st.seen
                         THEN add_file(st2, c.path, IsMainName(c.path))
                         ELSE st2
        ELSE st

RECURSIVE GifLoop(_, _, _, _)
GifLoop(st, entries, delete_cng, fail) ==
    IF entries = <<>> THEN st
    ELSE GifLoop(GifVisit(st, Head(entries), delete_cng, fail), Tail(entries),
                 delete_cng, fail)

GifStart(d) == [main_pages |-> <<>>, extras |-> <<>>, seen |-> {}, dir |-> d]

\* The mutant: one sort over both groups.
get_image_files_mixed(d, delete_cng, fail) ==
    LET st == GifLoop(GifStart(d), SortedSet(DOMAIN d), delete_cng, fail)
    IN  [pages |-> Sorted(st.main_pages \o st.extras), dir |-> st.dir]

\* The folder d, the caller's delete_cng, and how each conversion ends (fail):
\* the list returned and the folder as the call leaves it.
get_image_files(d, delete_cng, fail) ==
    LET st == GifLoop(GifStart(d), SortedSet(DOMAIN d), delete_cng, fail)
    IN  [pages |-> Sorted(st.main_pages) \o Sorted(st.extras), dir |-> st.dir]

(***************************************************************************)
(* The documents of the output directory                                   *)
(***************************************************************************)
\* A PDF: ok is FALSE for a file whose write stopped half-way; a page is the
\* picture and whether it carries a text layer (a /Font resource).
Pdf(pages) == [ok |-> TRUE, pages |-> pages]

BrokenPdf == [ok |-> FALSE, pages |-> <<>>]

PlainPage(bytes) == [img |-> bytes, text |-> FALSE]

TextPage(bytes) == [img |-> bytes, text |-> TRUE]

\* The mutant: no document is ever found to have a text layer.
pdf_has_ocr_never(pdf) == FALSE

pdf_has_ocr(pdf) == pdf.ok /\ \E i \in 1..Len(pdf.pages) : pdf.pages[i].text

\* f"{i:03}.pdf"
DigitCh(n) == Ch("0123456789", n + 1)

RECURSIVE Decimal(_)
Decimal(n) == IF n < 10 THEN DigitCh(n) ELSE Decimal(n \div 10) \o DigitCh(n % 10)

Fmt03(i) ==
    LET s == Decimal(i)
    IN  (IF Len(s) < 3 THEN SubSeq("00", 1, 3 - Len(s)) ELSE "") \o s \o ".pdf"

(***************************************************************************)
(* The pool, the folders, the state before the first call                  *)
(***************************************************************************)
Jobs == 2

\* The calls of process_folder in one behaviour.
MaxCalls == 3

Workers == 1..Jobs

\* The folders of the tree under the root, with their entries: two folders of
\* one issue.
InitDirs ==
    ("r/19840700" :> (("a.cng" :> File(XorBytes(Jpeg(2)))) @@ ("bad.jpg" :> File(Garbage))))
    @@ ("r/x198407" :> ("ngm_1.jpg" :> File(Jpeg(3))))

\* A folder of the runs on one folder: it holds one page.
OnePage == "p.jpg" :> File(Jpeg(1))

KeyAlphabet == {"1", "2", "x"}

\* The longest folder name of KeyNames.
MaxNameLen == 7

RECURSIVE Words(_)
Words(n) ==
    IF n = 0 THEN {""}
    ELSE LET w == Words(n - 1) IN w \cup {a \o c : a \in w, c \in KeyAlphabet}

\* Folder paths: every name over the alphabet, and some longer ones with two
\* runs of digits, a parent directory, a trailing slash.
KeyNames ==
    Words(MaxNameLen)
    \cup {"r/121212x212121", "r/2121212x121212", "12121x212121", "121212/x",
          "x/1212121", "121212/", "2121212121212"}

\* The tree under the root of a search by key: what each path may be.
TreePaths ==
    ("r/19840700" :> "dir") @@ ("r/d/198407" :> "dir") @@ ("r/198407b" :> "dir")
    @@ ("r/198407.txt" :> "file") @@ ("r/x198407" :> "dir") @@ ("r/19850100" :> "dir")

\* The root of a batch: it holds the two folders of InitDirs.
Root == "r"

BatchDirs == (Root :> (("19840700" :> SubDir) @@ ("x198407" :> SubDir))) @@ InitDirs

\* yyyymm = extract_yyyymm(folder) (line 149), for the folders of the model
Yyyymm ==
    [f \in KeyNames \cup DOMAIN BatchDirs \cup DOMAIN TreePaths |-> extract_yyyymm(f)]

NoArg == [folder |-> "", ocr |-> FALSE, key |-> NoKey]

NoScratch == [ex |-> FALSE, files |-> <<>>]

NoSaw == [exists |-> FALSE, text |-> FALSE]

NoCommit == [did |-> FALSE, doc |-> BrokenPdf]

InitWorkers ==
    /\ pc = [t \in Workers |-> "idle"]
    /\ arg = [t \in Workers |-> NoArg]
    /\ images = [t \in Workers |-> <<>>]
    /\ objs = [t \in Workers |-> <<>>]
    /\ failed = [t \in Workers |-> 0]
    /\ rv = [t \in Workers |-> <<>>]
    /\ scratch = [t \in Workers |-> NoScratch]
    /\ wrote = [t \in Workers |-> FALSE]
    /\ saw = [t \in Workers |-> NoSaw]
    /\ prior = [t \in Workers |-> FALSE]
    /\ committed = [t \in Workers |-> NoCommit]
    /\ chkAtRet = [t \in Workers |-> FALSE]
    /\ report = "none"
    /\ fresh = NoArg
    /\ final = <<>>
    /\ calls = 0

NoGif ==
    /\ gdir = NoDir
    /\ gopt = [del |-> FALSE, fail |-> <<>>]
    /\ gout = [done |-> FALSE, pages |-> <<>>, dir |-> NoDir]

\* No search by key in this run.
NoFind ==
    /\ tree = <<>>
    /\ tin = [yyyymm |-> "", choice |-> 0]
    /\ tout = [done |-> FALSE, shown |-> <<>>, result |-> ""]

\* No batch in this run.
NoBatch ==
    /\ pending = <<>>
    /\ batch = [pool |-> Jobs, ocr |-> FALSE, stuck |-> ""]
    /\ ended = <<>>

Init ==
    /\ InitWorkers /\ dirs = InitDirs /\ chk = <<>> /\ remove \in BOOLEAN
    /\ NoGif /\ NoFind /\ NoBatch

gvars == <<gdir, gopt, gout, remove, tree, tin, tout>>

bvars == <<pending, batch>>

DirOf(f) == IF f \in DOMAIN dirs THEN dirs[f] ELSE NoDir

KeyOf(t) == arg[t].key

OutputExists(k) == k \in DOMAIN final

ChkExists(k) == k \in DOMAIN chk

HasTextLayer(k) == OutputExists(k) /\ \E i \in 1..Len(final[k].pages) : final[k].pages[i].text

\* The locals of worker t, at the start of a call and after it.
Forget(t) ==
    /\ images' = [images EXCEPT ![t] = <<>>]
    /\ objs' = [objs EXCEPT ![t] = <<>>]
    /\ failed' = [failed EXCEPT ![t] = 0]
    /\ rv' = [rv EXCEPT ![t] = <<>>]
    /\ scratch' = [scratch EXCEPT ![t] = NoScratch]
    /\ wrote' = [wrote EXCEPT ![t] = FALSE]
    /\ committed' = [committed EXCEPT ![t] = NoCommit]
    /\ chkAtRet' = [chkAtRet EXCEPT ![t] = FALSE]

\* The call of worker t is over.
Leave(t) ==
    /\ pc' = [pc EXCEPT ![t] = "idle"]
    /\ arg' = [arg EXCEPT ![t] = NoArg]
    /\ saw' = [saw EXCEPT ![t] = NoSaw]
    /\ prior' = [prior EXCEPT ![t] = FALSE]
    /\ Forget(t)

\* The task of folder f has ended, with a line printed or an exception.
Note(f, how) ==
    ended' = IF f \in DOMAIN ended THEN [ended EXCEPT ![f] = how] ELSE ended

\* print_status(index, total, name, symbol) and the return after it
PrintStatus(t, st) ==
    /\ report' = st
    /\ Note(arg[t].folder, "printed")
    /\ Leave(t)

\* An exception leaves process_folder: the future keeps it, no status is printed.
Raise(t) == Leave(t) /\ report' = "none" /\ Note(arg[t].folder, "raised")

Goto(t, label) == pc' = [pc EXCEPT ![t] = label]

\* What stays as it is in a step of worker t inside its call.
Same(t) == report' = "none" /\ UNCHANGED <<arg, saw, prior, calls, gvars, bvars, ended>>

(***************************************************************************)
(* process_folder                                                          *)
(***************************************************************************)
\* The mutant: the final path is not looked at.
SkipsExisting_never(k, ocr) == FALSE

\* Lines 155-161: the folder is reported as existing and left alone.
SkipsExisting(k, ocr) == OutputExists(k) /\ ~(ocr /\ ~pdf_has_ocr(final[k]))

\* Lines 146-161, run by worker t on folder f.  The tasks of a pool are the
\* folders of one walk, each once, with the options of the run.
Start(t, f, o) ==
    /\ pc[t] = "idle"
    /\ calls < MaxCalls
    /\ calls' = calls + 1
    /\ \A u \in Workers : pc[u] # "idle" => arg[u].folder # f /\ arg[u].ocr = o
    /\ LET k == Yyyymm[f]
           a == [folder |-> f, ocr |-> o, key |-> k]
           st == IF k = NoKey THEN "skip"
                 ELSE IF SkipsExisting(k, o) THEN "exist" ELSE "none"
       IN  /\ report' = st
           /\ IF st = "none"
                THEN /\ arg' = [arg EXCEPT ![t] = a]
                     /\ Goto(t, "chk")
                     /\ saw' = [saw EXCEPT ![t] =
                                   [exists |-> OutputExists(k), text |-> HasTextLayer(k)]]
                     /\ prior' = [prior EXCEPT ![t] =
                                     a = fresh /\ \A u \in Workers : pc[u] = "idle"]
                     /\ UNCHANGED ended
                ELSE Note(f, "printed") /\ UNCHANGED <<pc, arg, saw, prior>>
    /\ Forget(t)
    /\ UNCHANGED <<final, chk, dirs, fresh, gvars>>

\* The mutant: a checkpoint that is there is left there.
CheckChk_keep(t) ==
    /\ pc[t] = "chk"
    /\ Goto(t, "list")
    /\ Same(t)
    /\ UNCHANGED <<images, objs, failed, rv, final, chk, scratch, dirs,
                   wrote, fresh, committed, chkAtRet>>

\* Line 163
CheckChk(t) ==
    /\ pc[t] = "chk"
    /\ Goto(t, IF ChkExists(KeyOf(t)) THEN "rmchk" ELSE "list")
    /\ Same(t)
    /\ UNCHANGED <<images, objs, failed, rv, final, chk, scratch, dirs,
                   wrote, fresh, committed, chkAtRet>>

\* Line 164: os.remove raises when the file went away after line 163.
RemoveChk(t) ==
    /\ pc[t] = "rmchk"
    /\ IF ChkExists(KeyOf(t))
         THEN /\ chk' = Remove(chk, KeyOf(t))
              /\ Goto(t, "list")
              /\ wrote' = [wrote EXCEPT ![t] = TRUE]
              /\ report' = "none"
              /\ UNCHANGED <<images, objs, failed, rv, scratch, committed, chkAtRet>>
              /\ UNCHANGED <<arg, saw, prior, ended>>
         ELSE /\ Raise(t)
              /\ UNCHANGED chk
    /\ UNCHANGED <<final, dirs, fresh, calls, gvars, bvars>>

CngNames(d) == {n \in DOMAIN d : Lower(Suffix(n)) = ".cng"}

\* Lines 166-169
List(t) ==
    /\ pc[t] = "list"
    /\ \E fail \in [CngNames(DirOf(arg[t].folder)) -> ConvertModes] :
         LET f == arg[t].folder
             r == get_image_files(DirOf(f), remove, fail)
         IN  /\ dirs' = Put(dirs, f, r.dir)
             /\ fresh' = IF r.dir # DirOf(f) /\ fresh.folder = f THEN NoArg ELSE fresh
             /\ IF r.pages = <<>>
                  THEN PrintStatus(t, "skip")
                  ELSE /\ Goto(t, IF arg[t].ocr THEN "ocr" ELSE "decode")
                       /\ images' = [images EXCEPT ![t] = r.pages]
                       /\ wrote' = [wrote EXCEPT ![t] = @ \/ r.dir # DirOf(f)]
                       /\ report' = "none"
                       /\ UNCHANGED <<arg, saw, prior, objs, failed, rv, scratch,
                                      committed, chkAtRet, ended>>
    /\ UNCHANGED <<final, chk, calls, gvars, bvars>>

\* Lines 172-174
Report(t) ==
    /\ pc[t] = "ret"
    /\ PrintStatus(t, IF rv[t] # <<>> THEN "fail"
                      ELSE IF arg[t].ocr THEN "done_ocr" ELSE "done")
    /\ fresh' = IF /\ rv[t] = <<>>
                   /\ committed[t].did
                   /\ OutputExists(KeyOf(t))
                   /\ final[KeyOf(t)] = committed[t].doc
                  THEN arg[t] ELSE fresh
    /\ UNCHANGED <<final, chk, dirs, calls, gvars, bvars>>

(***************************************************************************)
(* build_pdf                                                               *)
(***************************************************************************)
Bytes(t, name) == DirOf(arg[t].folder)[name].bytes

CanOpen(t, name) == IsFile(DirOf(arg[t].folder), name) /\ Decodable(Bytes(t, name))

\* The mutant: one image that cannot be loaded leaves nothing to save.
LoadAll_failfast(t, names) ==
    IF \E i \in 1..Len(names) : ~CanOpen(t, names[i]) THEN <<>>
    ELSE [i \in 1..Len(names) |-> Bytes(t, names[i])]

RECURSIVE LoadAll(_, _)
\* Lines 90-97: the images that load, in order; one that does not is passed over.
LoadAll(t, names) ==
    IF names = <<>> THEN <<>>
    ELSE (IF CanOpen(t, Head(names)) THEN <<Bytes(t, Head(names))>> ELSE <<>>)
         \o LoadAll(t, Tail(names))

\* build_pdf returns r; chkLeft: a file is at the checkpoint path then.
Return(t, r, chkLeft) ==
    /\ Goto(t, "ret")
    /\ rv' = [rv EXCEPT ![t] = r]
    /\ chkAtRet' = [chkAtRet EXCEPT ![t] = chkLeft]

\* Lines 89-98 and 107 (direct mode)
Decode(t) ==
    /\ pc[t] = "decode"
    /\ LET loaded == LoadAll(t, images[t])
       IN  /\ objs' = [objs EXCEPT ![t] = loaded]
           /\ IF loaded = <<>>
                THEN Return(t, <<"IMAGE_OPEN_FAIL">>, ChkExists(KeyOf(t)))
                ELSE Goto(t, "save") /\ UNCHANGED <<rv, chkAtRet>>
    /\ Same(t)
    /\ UNCHANGED <<images, failed, final, chk, scratch, dirs, wrote, fresh, committed>>

\* How a write of the checkpoint ends: written in full, nothing left at the
\* path, or a partial file left.
SaveOutcomes == {"ok", "none", "partial"}

\* image_objs[0].save(temp_output, ...) (line 100) and merger.save(temp_output)
\* (line 132): pages go to the checkpoint path, whatever is there.
WriteChk(t, pages, outcome, err) ==
    /\ chk' = IF outcome = "ok" THEN Put(chk, KeyOf(t), Pdf(pages))
              ELSE IF outcome = "partial" THEN Put(chk, KeyOf(t), BrokenPdf)
              ELSE chk
    /\ wrote' = [wrote EXCEPT ![t] = @ \/ outcome # "none"]
    /\ IF outcome = "ok"
         THEN Goto(t, "rename") /\ UNCHANGED <<rv, chkAtRet>>
         ELSE Return(t, <<err>>, outcome = "partial" \/ ChkExists(KeyOf(t)))

PlainPages(bs) == [i \in 1..Len(bs) |-> PlainPage(bs[i])]

\* Line 100
Save(t) ==
    /\ pc[t] = "save"
    /\ \E outcome \in SaveOutcomes : WriteChk(t, PlainPages(objs[t]), outcome, "WRITE_ERROR")
    /\ Same(t)
    /\ UNCHANGED <<images, objs, failed, final, scratch, dirs, fresh, committed>>

\* os.rename(temp_output, output_path) (lines 101 and 134): it replaces a file
\* at the final path; it raises when there is no checkpoint, or when the
\* filesystem refuses (envok is FALSE).
Rename(t, envok) ==
    /\ pc[t] = "rename"
    /\ LET k == KeyOf(t)
       IN  IF envok /\ ChkExists(k)
             THEN /\ final' = Put(final, k, chk[k])
                  /\ chk' = Remove(chk, k)
                  /\ committed' = [committed EXCEPT ![t] = [did |-> TRUE, doc |-> chk[k]]]
                  /\ wrote' = [wrote EXCEPT ![t] = TRUE]
                  /\ fresh' = IF fresh.key = k THEN NoArg ELSE fresh
                  /\ IF arg[t].ocr
                       THEN Goto(t, "rmtree") /\ UNCHANGED <<rv, chkAtRet>>
                       ELSE Return(t, <<>>, FALSE)
             ELSE /\ Return(t, <<IF arg[t].ocr THEN "MERGE_FAIL" ELSE "WRITE_ERROR">>,
                            ChkExists(k))
                  /\ UNCHANGED <<final, chk, committed, wrote, fresh>>
    /\ Same(t)
    /\ UNCHANGED <<images, objs, failed, scratch, dirs>>

\* Lines 110-121: the scratch directory is made (its name is the call's own);
\* image i (from 0) becomes the one-page PDF <i:03>.pdf in it, with a text
\* layer, unless tesseract raises: on an image it cannot read, or on one of
\* the images in bad (the engine fails).
Ocr(t, bad) ==
    /\ pc[t] = "ocr"
    /\ LET n == Len(images[t])
           good == {i \in 1..n : CanOpen(t, images[t][i]) /\ i \notin bad}
           named == {Fmt03(i - 1) : i \in good}
           at(name) == CHOOSE i \in good : Fmt03(i - 1) = name
       IN  /\ scratch' = [scratch EXCEPT ![t] =
                             [ex |-> TRUE,
                              files |-> [name \in named |->
                                            TextPage(Bytes(t, images[t][at(name)]))]]]
           /\ failed' = [failed EXCEPT ![t] = n - Cardinality(good)]
    /\ wrote' = [wrote EXCEPT ![t] = TRUE]
    /\ Goto(t, "merge")
    /\ Same(t)
    /\ UNCHANGED <<images, objs, rv, final, chk, dirs, fresh, committed, chkAtRet>>

\* Lines 129-131: the pages of sorted(glob("*.pdf")), appended in that order.
Merged(t) ==
    LET names == SortedSet(DOMAIN scratch[t].files)
    IN  [j \in 1..Len(names) |-> scratch[t].files[names[j]]]

\* Lines 128-133 and 135-137
Merge(t) ==
    /\ pc[t] = "merge"
    /\ \E outcome \in SaveOutcomes : WriteChk(t, Merged(t), outcome, "MERGE_FAIL")
    /\ Same(t)
    /\ UNCHANGED <<images, objs, failed, final, scratch, dirs, fresh, committed>>

\* Lines 139-140; shutil.rmtree raises when envok is FALSE.
Rmtree(t, envok) ==
    /\ pc[t] = "rmtree"
    /\ IF envok
         THEN /\ scratch' = [scratch EXCEPT ![t] = NoScratch]
              /\ wrote' = [wrote EXCEPT ![t] = TRUE]
              /\ Return(t, IF failed[t] < Len(images[t]) THEN <<>> ELSE <<"ALL_OCR_FAILED">>,
                        ChkExists(KeyOf(t)))
              /\ report' = "none"
              /\ UNCHANGED <<images, objs, failed, committed>>
              /\ UNCHANGED <<arg, saw, prior, ended>>
         ELSE Raise(t)
    /\ UNCHANGED <<final, chk, dirs, fresh, calls, gvars, bvars>>

(***************************************************************************)
(* The program: the calls of the workers of the pool                       *)
(***************************************************************************)
\* executor.submit(process_folder, ...) (line 186), or main's own call
Call(t) == \E f \in DOMAIN dirs, o \in BOOLEAN : Start(t, f, o) /\ UNCHANGED bvars

Step(t) ==
    \/ CheckChk(t)
    \/ RemoveChk(t)
    \/ List(t)
    \/ Decode(t)
    \/ Save(t)
    \/ \E envok \in BOOLEAN : Rename(t, envok)
    \/ \E bad \in SUBSET (1..Len(images[t])) : Ocr(t, bad)
    \/ Merge(t)
    \/ \E envok \in BOOLEAN : Rmtree(t, envok)
    \/ Report(t)

Next == \E t \in Workers : Call(t) \/ Step(t)

Spec == Init /\ [][Next]_vars

(***************************************************************************)
(* The calls of one worker, one after the other                            *)
(***************************************************************************)
NextOne == Call(1) \/ Step(1)

SpecOne == Init /\ [][NextOne]_vars

(***************************************************************************)
(* One call of process_folder on one folder, of any name                   *)
(***************************************************************************)
\* What an interrupted earlier run may have left at the checkpoint path of f.
StaleChk(f) ==
    IF Yyyymm[f] = NoKey THEN {<<>>} ELSE {<<>>, Yyyymm[f] :> BrokenPdf}

InitKey ==
    /\ InitWorkers
    /\ remove = FALSE
    /\ \E f \in KeyNames :
         /\ dirs = (f :> OnePage)
         /\ chk \in StaleChk(f)
    /\ NoGif /\ NoFind /\ NoBatch

NextKey == (calls = 0 /\ Call(1)) \/ Step(1)

SpecKey == InitKey /\ [][NextKey]_vars

(***************************************************************************)
(* get_image_files on one folder, of any content                           *)
(***************************************************************************)
\* The entries a folder may hold.
Entries ==
    ("NGM_2.jpg" :> File(Jpeg(1)))
    @@ ("ngm_1.jpg" :> File(Jpeg(2)))
    @@ ("ngm_1.cng" :> File(XorBytes(Jpeg(3))))
    @@ ("a.jpg" :> File(Jpeg(4)))
    @@ ("a.cng" :> File(XorBytes(Jpeg(5))))
    @@ ("A.jpg" :> File(Jpeg(6)))
    @@ ("B.jpg" :> File(Jpeg(7)))
    @@ ("b.CNG" :> File(XorBytes(Jpeg(8))))
    @@ ("c.txt" :> File(Garbage))
    @@ ("sub.jpg" :> SubDir)
    @@ ("sub.cng" :> File(XorBytes(Jpeg(9))))

\* The most entries of a folder.
MaxFiles == 3

GifDirs ==
    {[n \in S |-> Entries[n]] : S \in {S \in SUBSET DOMAIN Entries : Cardinality(S) <= MaxFiles}}

InitFiles ==
    /\ InitWorkers
    /\ remove = FALSE
    /\ dirs = NoDir
    /\ chk = <<>>
    /\ gdir \in GifDirs
    /\ gopt \in [del : BOOLEAN, fail : [CngNames(gdir) -> ConvertModes]]
    /\ gout = [done |-> FALSE, pages |-> <<>>, dir |-> NoDir]
    /\ NoFind /\ NoBatch

\* images = get_image_files(folder, delete_cng=delete_cng) (line 166)
GifCall ==
    /\ ~gout.done
    /\ LET r == get_image_files(gdir, gopt.del, gopt.fail)
       IN  gout' = [done |-> TRUE, pages |-> r.pages, dir |-> r.dir]
    /\ UNCHANGED <<pc, arg, images, objs, failed, rv, report, final, chk, scratch, dirs,
                   wrote, saw, prior, fresh, committed, chkAtRet, remove, calls, gdir, gopt,
                   tree, tin, tout, pending, batch, ended>>

NextFiles == GifCall

SpecFiles == InitFiles /\ [][NextFiles]_vars

(***************************************************************************)
(* main with a source root and an issue: get_target_folder, process_folder *)
(***************************************************************************)
Queries == {"198407", "198501"}

\* The numbers typed at "Select one: " run from -MaxChoice to MaxChoice.
MaxChoice == 3

\* Path(rootdir).rglob(f'{yyyymm}*') and path.is_dir() (lines 192-194)
Candidates(tr, yyyymm) ==
    {p \in DOMAIN tr : StartsWith(Basename(p), yyyymm) /\ tr[p] = "dir"}

\* The orders in which rglob may yield the paths of S.
Orders(S) ==
    {q \in [1..Cardinality(S) -> S] : \A i, j \in 1..Cardinality(S) : q[i] = q[j] => i = j}

\* Lines 195-206, given the list of candidates and the number typed:
\* "exit" is sys.exit(1), "error" an IndexError out of candidates[choice - 1].
get_target_folder(candidates, choice) ==
    LET n == Len(candidates)
        i == choice - 1
    IN  IF n = 0 THEN "exit"
        ELSE IF n = 1 THEN candidates[1]
        ELSE IF 0 <= i /\ i < n THEN candidates[i + 1]
        ELSE IF -n <= i /\ i < 0 THEN candidates[n + i + 1]
        ELSE "error"

InitFind ==
    /\ InitWorkers
    /\ remove = FALSE
    /\ NoGif /\ NoBatch
    /\ \E S \in SUBSET DOMAIN TreePaths :
         /\ tree = [p \in S |-> TreePaths[p]]
         /\ dirs = [p \in {p \in S : TreePaths[p] = "dir"} |-> OnePage]
    /\ chk \in {<<>>, "198407" :> BrokenPdf}
    /\ tin \in [yyyymm : Queries, choice : (0 - MaxChoice)..MaxChoice]
    /\ tout = [done |-> FALSE, shown |-> <<>>, result |-> ""]

\* folder = get_target_folder(args.src, args.yyyymm) (line 240)
FindTarget ==
    /\ ~tout.done
    /\ \E candidates \in Orders(Candidates(tree, tin.yyyymm)) :
         tout' = [done |-> TRUE, shown |-> candidates,
                  result |-> get_target_folder(candidates, tin.choice)]
    /\ UNCHANGED <<pc, arg, images, objs, failed, rv, report, final, chk, scratch, dirs,
                   wrote, saw, prior, fresh, committed, chkAtRet, remove, calls, gdir, gopt,
                   gout, tree, tin, pending, batch, ended>>

\* process_folder(0, folder, 1, ...) (line 241), when get_target_folder returned
MainCall ==
    /\ tout.done
    /\ tout.result \in DOMAIN tree
    /\ calls = 0
    /\ \E o \in BOOLEAN : Start(1, tout.result, o)
    /\ UNCHANGED bvars

NextFind == FindTarget \/ MainCall \/ Step(1)

SpecFind == InitFind /\ [][NextFind]_vars

(***************************************************************************)
(* run_batch: the folders of one walk, taken by the workers of the pool    *)
(***************************************************************************)
\* fast_find_dirs(root): the root first, its folders in the order of the walk
BatchOrders ==
    {<<Root>> \o q : q \in Orders(DOMAIN InitDirs)}

InitBatch ==
    /\ InitWorkers
    /\ dirs = BatchDirs
    /\ chk = <<>>
    /\ remove = FALSE
    /\ NoGif /\ NoFind
    /\ pending \in BatchOrders
    /\ batch \in [pool : 1..Jobs, ocr : BOOLEAN, stuck : DOMAIN InitDirs]
    /\ ended = [f \in DOMAIN BatchDirs |-> "none"]

\* A worker of the pool takes the next folder submitted (lines 184-186).
BatchCall(t) ==
    /\ t <= batch.pool
    /\ pending # <<>>
    /\ Start(t, Head(pending), batch.ocr)
    /\ pending' = Tail(pending)
    /\ UNCHANGED batch

NextBatch == \E t \in Workers : BatchCall(t) \/ Step(t)

\* Every thread that has something to do goes on, but for the one whose
\* folder is slow or stuck.
FairBatch ==
    \A t \in Workers :
        /\ WF_vars(BatchCall(t))
        /\ WF_vars(Step(t) /\ arg[t].folder # batch.stuck)

SpecBatch == InitBatch /\ [][NextBatch]_vars /\ FairBatch

(***************************************************************************)
(* The checkpoint, the final document, the scratch directory (C1-C8)       *)
(***************************************************************************)
\* C1: whenever build_pdf returns a failure result, no file is at the
\* checkpoint path (output path + ".chk") at the moment it returns.
C1_NoCheckpointAfterFailure ==
    \A t \in Workers : pc[t] = "ret" /\ rv[t] # <<>> => ~chkAtRet[t]

\* C2 as stated: a final document that exists is never replaced, modified or
\* removed, whatever the calls, their options and the number of workers.
C2_FinalNeverReplaced ==
    [][\A k \in DOMAIN final : k \in DOMAIN final' /\ final'[k] = final[k]]_vars

\* C2 as amended: the final documents change only by the rename of the
\* checkpoint of a call whose look at the final path (lines 155-156) found no
\* file there, or found, with OCR asked for, a document without a text layer.
C2_ReplacedOnlyAfterCheck ==
    [][final' # final =>
          \E t \in Workers :
              /\ pc[t] = "rename"
              /\ pc'[t] \in {"ret", "rmtree"}
              /\ ~saw[t].exists \/ (arg[t].ocr /\ ~saw[t].text)
              /\ ChkExists(KeyOf(t))
              /\ final' = Put(final, KeyOf(t), chk[KeyOf(t)])]_vars

\* A call with OCR has replaced a document it found without a text layer.
C2_Witness ==
    \E t \in Workers :
        /\ committed[t].did
        /\ saw[t].exists /\ ~saw[t].text /\ arg[t].ocr
        /\ OutputExists(KeyOf(t))

\* C3: a call that repeats, with the same options and on the unchanged folder,
\* a call that converted the folder, is reported already-exists at once: it
\* never goes on to the checkpoint, the folder's images and the build.
C3_SecondRunSkips ==
    \A t \in Workers : ~prior[t]

\* C4: at no time are two workers inside a call for the same issue key.
C4_OneBuilderPerKey ==
    \A t, u \in Workers :
        t # u /\ pc[t] # "idle" /\ pc[u] # "idle" => KeyOf(t) # KeyOf(u)

\* The images of the call of t that can be decoded, in the order of the list.
DecodableOf(t) ==
    LET ok == SelectSeq(images[t], LAMBDA n : CanOpen(t, n))
    IN  [i \in 1..Len(ok) |-> Bytes(t, ok[i])]

\* C5 as stated: in direct mode one image that cannot be decoded aborts the
\* build: build_pdf returns a failure and the call commits no document.
C5_OneBadPageAborts ==
    \A t \in Workers :
        (/\ ~arg[t].ocr
         /\ pc[t] \in {"save", "rename", "ret"}
         /\ \E i \in 1..Len(images[t]) : ~CanOpen(t, images[t][i]))
        => (pc[t] = "ret" /\ rv[t] # <<>> /\ ~committed[t].did)

\* C5 as amended: in direct mode an image that cannot be decoded is passed
\* over; build_pdf gives up with IMAGE_OPEN_FAIL (nothing written or committed
\* by the call) exactly when no image of the list can be decoded, and else
\* goes on to write the decodable images, in the order of the list.
C5_BadPagesSkipped ==
    \A t \in Workers :
        ~arg[t].ocr /\ pc[t] \in {"save", "rename", "ret"} =>
            /\ objs[t] = DecodableOf(t)
            /\ IF DecodableOf(t) = <<>>
                 THEN /\ pc[t] = "ret"
                      /\ rv[t] = <<"IMAGE_OPEN_FAIL">>
                      /\ ~committed[t].did
                 ELSE rv[t] # <<"IMAGE_OPEN_FAIL">>

\* A build in direct mode has committed a document and reports success though
\* one of its images could not be decoded.
C5_Witness ==
    \E t \in Workers :
        /\ ~arg[t].ocr /\ pc[t] = "ret" /\ rv[t] = <<>>
        /\ committed[t].did
        /\ 0 < Len(objs[t]) /\ Len(objs[t]) < Len(images[t])
        /\ committed[t].doc = Pdf(PlainPages(DecodableOf(t)))

\* C6: in OCR mode the document a call commits has one page for each image of
\* its list, in the order of the list.
C6_EveryPageIncluded ==
    \A t \in Workers :
        arg[t].ocr /\ committed[t].did =>
            /\ Len(committed[t].doc.pages) = Len(images[t])
            /\ \A i \in 1..Len(images[t]) :
                   IsFile(DirOf(arg[t].folder), images[t][i])
                   => committed[t].doc.pages[i].img = Bytes(t, images[t][i])

\* C7: in OCR mode the scratch directory of the call is gone when build_pdf
\* returns, whatever it returns.
C7_NoScratchAtReturn ==
    \A t \in Workers : arg[t].ocr /\ pc[t] = "ret" => ~scratch[t].ex

\* C8: a build that ends with a failure result, and so is reported failed, has
\* put no file at the final path.
C8_FailedBuildLeavesNoFinal ==
    \A t \in Workers : pc[t] = "ret" /\ rv[t] # <<>> => ~committed[t].did

(***************************************************************************)
(* The issue key of a folder name (C9)                                     *)
(***************************************************************************)
\* The places of a name where a run of digits starts.
RunStarts(b) ==
    {i \in 1..Len(b) : Ch(b, i) \in Digits /\ (i = 1 \/ Ch(b, i - 1) \notin Digits)}

\* The length of the run of digits that starts at place i.
RunLen(b, i) ==
    CHOOSE n \in 1..(Len(b) - i + 1) :
        /\ AllDigits(SubSeq(b, i, i + n - 1))
        /\ (i + n > Len(b) \/ Ch(b, i + n) \notin Digits)

\* The first six digits of the leftmost run among the runs at the places S.
FirstSix(b, S) ==
    IF S = {} THEN NoKey
    ELSE LET i == CHOOSE i \in S : \A j \in S : i <= j
         IN  SubSeq(b, i, i + KeyLen - 1)

\* The key as C9 states it: the leftmost run of exactly six digits.
KeyOfExactRun(b) == FirstSix(b, {i \in RunStarts(b) : RunLen(b, i) = KeyLen})

\* The key as amended: the first six digits of the leftmost run of six or more.
KeyOfLongRun(b) == FirstSix(b, {i \in RunStarts(b) : RunLen(b, i) >= KeyLen})

\* A call on the folder f (the first call: nothing is at the final path): with
\* the key k it goes on to build for k; with no key it prints skip, returns and
\* has written nothing.
CallsWithKey(f, k) ==
    calls' = calls + 1 =>
        IF k = NoKey
          THEN /\ report' = "skip"
               /\ pc' = pc
               /\ UNCHANGED <<final, chk, dirs, scratch>>
          ELSE /\ pc'[1] = "chk"
               /\ arg'[1].key = k

\* C9 as stated: the key is the leftmost run of exactly six digits of the base
\* name; a name without such a run has no key, and its folder is skipped with
\* no write.
C9_ExactlySixDigits ==
    [][\A f \in DOMAIN dirs : CallsWithKey(f, KeyOfExactRun(Basename(f)))]_vars

\* C9 as amended: the key is the first six digits of the leftmost run of six
\* or more digits of the base name; a name without such a run has no key, and
\* its folder is skipped with no write; a document is only ever named by the key.
C9_FirstSixDigits ==
    [][/\ \A f \in DOMAIN dirs : CallsWithKey(f, KeyOfLongRun(Basename(f)))
       /\ \A k \in DOMAIN final' : \E f \in DOMAIN dirs : k = KeyOfLongRun(Basename(f))]_vars

\* A document was made for a folder whose name has a run of more than six
\* digits and no run of exactly six.
C9_Witness ==
    \E f \in DOMAIN dirs :
        /\ KeyOfExactRun(Basename(f)) = NoKey
        /\ KeyOfLongRun(Basename(f)) # NoKey
        /\ OutputExists(KeyOfLongRun(Basename(f)))

(***************************************************************************)
(* The list of a folder's images (C10)                                     *)
(***************************************************************************)
\* A primary page: the name starts with "ngm_", whatever the case.
Primary(name) == Len(name) >= 4 /\ Lower(SubSeq(name, 1, 4)) = "ngm_"

\* The page p of the list is a .cng entry of the folder, transformed in full.
Transformed(p) ==
    \E c \in DOMAIN gdir :
        /\ IsFile(gdir, c)
        /\ Lower(Suffix(c)) = ".cng"
        /\ p = Stem(c) \o ".jpg"
        /\ gout.dir[p].bytes = XorBytes(gdir[c].bytes)

\* C10: in the list get_image_files returns every primary page stands before
\* every supplementary page; every page is a file of the folder with the
\* suffix .jpg that was an entry of the folder or is a .cng entry transformed
\* in full; no two pages have the same stem, whatever the case.
C10_PrimaryFirstNoDuplicates ==
    gout.done =>
        LET P == gout.pages
        IN  /\ \A i, j \in 1..Len(P) : i < j /\ Primary(P[j]) => Primary(P[i])
            /\ \A i \in 1..Len(P) :
                   /\ Lower(Suffix(P[i])) = ".jpg"
                   /\ IsFile(gout.dir, P[i])
                   /\ IsFile(gdir, P[i]) \/ Transformed(P[i])
            /\ \A i, j \in 1..Len(P) : i # j => Lower(Stem(P[i])) # Lower(Stem(P[j]))

\* A list with a primary page, a supplementary page whose name sorts before
\* it, and a page that was transformed.
C10_Witness ==
    /\ gout.done
    /\ \E i, j \in 1..Len(gout.pages) :
           /\ Primary(gout.pages[i]) /\ ~Primary(gout.pages[j])
           /\ StrLess(gout.pages[j], gout.pages[i])
    /\ \E i \in 1..Len(gout.pages) : ~Present(gdir, gout.pages[i])

(***************************************************************************)
(* The order of the list, the two encodings of one page (C11, C12, C17,    *)
(* C19)                                                                    *)
(***************************************************************************)
\* C11: within the primary pages and within the supplementary pages of the
\* list, the names stand in lexical order whatever their case.
C11_OrderIgnoresCase ==
    gout.done =>
        \A i, j \in 1..Len(gout.pages) :
            i < j /\ (Primary(gout.pages[i]) <=> Primary(gout.pages[j]))
            => ~StrLess(Lower(gout.pages[j]), Lower(gout.pages[i]))

\* The stems for which the folder holds a .cng file and a .jpg file.
TwiceEncoded ==
    {Lower(Stem(c)) : c \in {c \in CngNames(gdir) : IsFile(gdir, c) /\
        \E j \in DOMAIN gdir : /\ IsFile(gdir, j)
                               /\ Lower(Suffix(j)) = ".jpg"
                               /\ Lower(Stem(j)) = Lower(Stem(c))}}

\* The files of the folder with the stem s that are .jpg or .cng, in the order
\* in which the loop visits them.
VisitedWithStem(s) ==
    SortedSet({n \in DOMAIN gdir :
                  /\ IsFile(gdir, n)
                  /\ Lower(Stem(n)) = s
                  /\ Lower(Suffix(n)) \in {".jpg", ".cng"}})

\* The first file of a visiting order that the loop accepts: a .jpg, or a
\* .cng whose transform succeeds.
RECURSIVE FirstAccepted(_)
FirstAccepted(names) ==
    IF names = <<>> THEN NoPath
    ELSE IF Lower(Suffix(Head(names))) = ".jpg" THEN Head(names)
    ELSE IF ModeOf(gopt.fail, Head(names)) = "ok"
               \/ (ModeOf(gopt.fail, Head(names)) = "remove" /\ ~gopt.del)
        THEN Head(names)
    ELSE FirstAccepted(Tail(names))

\* C12: for a stem the folder holds as .cng and as .jpg, the list has exactly
\* one page, and it is the file accepted first in the visiting order: that
\* .jpg itself, or the transform of that .cng; a .cng that comes after the
\* accepted file is left as it was, and no transform of it is made.
C12_OnePagePerStem ==
    gout.done =>
        \A s \in TwiceEncoded :
            LET at == {i \in 1..Len(gout.pages) : Lower(Stem(gout.pages[i])) = s}
                order == VisitedWithStem(s)
                first == FirstAccepted(order)
                k == CHOOSE k \in 1..Len(order) : order[k] = first
            IN  /\ Cardinality(at) = 1
                /\ first # NoPath
                /\ \A i \in at :
                       /\ gout.pages[i] = Stem(first) \o ".jpg"
                       /\ Lower(Suffix(first)) = ".cng"
                          => gout.dir[gout.pages[i]].bytes = XorBytes(gdir[first].bytes)
                /\ \A m \in (k + 1)..Len(order) :
                       Lower(Suffix(order[m])) = ".cng"
                       => /\ Present(gout.dir, order[m])
                          /\ gout.dir[order[m]] = gdir[order[m]]
                          /\ Present(gout.dir, Stem(order[m]) \o ".jpg")
                             => Present(gdir, Stem(order[m]) \o ".jpg")

\* A folder whose .cng is visited and transformed before the .jpg of the same
\* stem, which is then passed over.
C12_Witness ==
    /\ gout.done
    /\ \E s \in TwiceEncoded :
           LET first == FirstAccepted(VisitedWithStem(s))
           IN  /\ Lower(Suffix(first)) = ".cng"
               /\ \E i \in 1..Len(gout.pages) :
                      /\ gout.pages[i] = Stem(first) \o ".jpg"
                      /\ gout.dir[gout.pages[i]].bytes = XorBytes(gdir[first].bytes)
                      /\ gout.dir[gout.pages[i]] # gdir[gout.pages[i]]

\* C17: a .cng of the folder is gone after the call only if deletion was asked
\* for and its .jpg sibling holds the whole transform; when deletion was not
\* asked for, or the transform failed at any point, the .cng is still there
\* with its content.
C17_SourceDeletedOnlyAfterWrite ==
    gout.done =>
        \A c \in CngNames(gdir) :
            IsFile(gdir, c) =>
                IF Present(gout.dir, c)
                  THEN gout.dir[c] = gdir[c]
                  ELSE /\ gopt.del
                       /\ ModeOf(gopt.fail, c) = "ok"
                       /\ IsFile(gout.dir, Stem(c) \o ".jpg")
                       /\ gout.dir[Stem(c) \o ".jpg"].bytes = XorBytes(gdir[c].bytes)

\* A .cng was deleted after its transform, and another one, whose transform
\* failed, was kept, in a call that was asked to delete.
C17_Witness ==
    /\ gout.done
    /\ gopt.del
    /\ \E c \in CngNames(gdir) : ~Present(gout.dir, c)
    /\ \E c \in CngNames(gdir) :
           IsFile(gdir, c) /\ ModeOf(gopt.fail, c) = "write" /\ Present(gout.dir, c)

\* C19: a .jpg file that was in the folder before the call has the same
\* content after it.
C19_JpgFilesUntouched ==
    gout.done =>
        \A n \in DOMAIN gdir :
            IsFile(gdir, n) /\ Lower(Suffix(n)) = ".jpg"
            => Present(gout.dir, n) /\ gout.dir[n] = gdir[n]

(***************************************************************************)
(* The existence check, the stale checkpoint, the status lines (C14, C15,  *)
(* C18)                                                                    *)
(***************************************************************************)
\* C14 as stated: a call goes past the look at the final path only when no
\* file is there, whatever its options.
C14_ExistingAlwaysSkipped ==
    [][\A t \in Workers :
          pc[t] = "idle" /\ pc'[t] = "chk" => ~OutputExists(arg'[t].key)]_vars

\* C14 as amended: a call goes past the look at the final path only when no
\* file is there, or when OCR is asked for and the document there has no text
\* layer; any other call on a folder with a key prints already-exists and
\* returns, with no checkpoint removed, no folder listed or transformed and
\* nothing built.
C14_SkippedUnlessOcrMissing ==
    [][calls' = calls + 1 =>
          IF \E t \in Workers : pc'[t] # pc[t]
            THEN \A t \in Workers :
                     pc'[t] # pc[t] =>
                         LET k == arg'[t].key
                         IN  \/ ~OutputExists(k)
                             \/ /\ arg'[t].ocr
                                /\ \A i \in 1..Len(final[k].pages) : ~final[k].pages[i].text
            ELSE /\ report' = "exist"
                 /\ final # <<>>
                 /\ UNCHANGED <<final, chk, dirs, scratch, images, pc>>]_vars

\* A folder whose document is there was reported already-exists.
C14_Witness ==
    /\ report = "exist"
    /\ \E k \in DOMAIN final : pdf_has_ocr(final[k])

\* C15: with one worker, no file is at the checkpoint path when the build
\* of a call begins and until the call writes its own, and the document a
\* call commits is the one it wrote itself.
C15_BuildStartsClean ==
    /\ pc[1] \in {"decode", "save", "ocr", "merge"} => ~ChkExists(KeyOf(1))
    /\ pc[1] = "rename" /\ ChkExists(KeyOf(1)) =>
           chk[KeyOf(1)] = Pdf(IF arg[1].ocr THEN Merged(1) ELSE PlainPages(objs[1]))
    /\ committed[1].did /\ pc[1] \in {"ret", "rmtree"} /\ ~arg[1].ocr =>
           committed[1].doc = Pdf(PlainPages(objs[1]))
    /\ committed[1].did /\ pc[1] = "rmtree" =>
           committed[1].doc = Pdf(Merged(1))

\* A call has removed the checkpoint an earlier, failed call left and is
\* about to list the folder.
C15_Witness ==
    pc[1] = "list" /\ wrote[1] /\ ~ChkExists(KeyOf(1)) /\ calls >= 2

\* C18: a call of process_folder that ends has printed a status line.
C18_EveryTaskReports ==
    [][\A t \in Workers : pc[t] # "idle" /\ pc'[t] = "idle" => report' # "none"]_vars

(***************************************************************************)
(* The search by key, the batch (C16, C13)                                 *)
(***************************************************************************)
\* C16: with no matching folder the program ends in an error and
\* process_folder is not called; with one, that folder is processed; with
\* several, the folder processed is the one shown at the number typed, and a
\* number outside 1..number of candidates leads to no call.
C16_ChoiceWithinRange ==
    tout.done =>
        LET n == Len(tout.shown)
        IN  /\ {tout.shown[i] : i \in 1..n} = Candidates(tree, tin.yyyymm)
            /\ n = 0 => tout.result = "exit" /\ calls = 0
            /\ n = 1 => tout.result = tout.shown[1]
            /\ n > 1 => IF tin.choice \in 1..n
                          THEN tout.result = tout.shown[tin.choice]
                          ELSE tout.result \notin DOMAIN tree /\ calls = 0
            /\ pc[1] # "idle" => arg[1].folder = tout.result

\* C13: in a batch of more folders than workers, whatever the size of the
\* pool, no folder waits for the slow or stuck one: while folders are still
\* to be taken, some worker of the pool is free or busy with another folder.
C13_NoFolderWaitsOnSlow ==
    pending # <<>> =>
        \E t \in 1..batch.pool : pc[t] = "idle" \/ arg[t].folder # batch.stuck

====
